---------------------------- MODULE Spec2Model ----------------------------
(***************************************************************************)
(* State-machine model of traffic_data/fetch_traffic_data.py: one run of   *)
(* main() is fetch (with retry) -> decode -> process_vehicles -> three     *)
(* writes.  The three CSV files survive from one run to the next.          *)
(*                                                                         *)
(* Units.  Floats are modelled in fixed point:                             *)
(*   latitude, longitude : 1e-7 degree  (round(.,6) rounds to 1e-6)        *)
(*   speed               : 1e-3 m/s     (round(.,2) rounds to 1e-2)        *)
(*   emissions           : 1e-2 g       (already the rounded grid)         *)
(*   timestamp (epoch)   : 1e10 s       (uint64 seconds do not fit a TLC   *)
(*                         integer; 2^63 s lies between 922337203 and      *)
(*                         922337204 units, year 10000 between 25 and 26)  *)
(***************************************************************************)
EXTENDS Integers, Sequences, FiniteSets, TLC

VARIABLES
    pc,            \* position of the run inside main()
    runs,          \* number of runs started so far (also the wall clock)
    attempts,      \* outcomes of the requests issued by this run, in order
    log,           \* logger events emitted by this run, in order
    entities,      \* result of fetch_traffic_data (vehicle entities)
    rows,          \* process_vehicles: rows built before deduplication
    skipped,       \* process_vehicles: skipped counter
    df,            \* process_vehicles: returned DataFrame (deduplicated)
    exitCode,      \* exit status of the process: 0 unless sys.exit(1) ran
    rawStore,      \* raw_traffic_emissions.csv
    countStore,    \* vehicle_count_log.csv
    summaryStore,  \* traffic_pollution_summary.csv
    before         \* the three files as they were when this run started

vars == <<pc, runs, attempts, log, entities, rows, skipped, df, exitCode,
          rawStore, countStore, summaryStore, before>>

runVars == <<attempts, log, entities, rows, skipped, df>>
stores == <<rawStore, countStore, summaryStore>>

(***************************************************************************)
(* Bounds of the exploration.                                              *)
(***************************************************************************)
MaxRuns == 2
MaxEntities == 2
MaxScenario == 3

(***************************************************************************)
(* CONFIG                                                                  *)
(***************************************************************************)
max_retries == 3
SPEED_MAX_M_S == 30000
LAT_MIN == 285000000
LAT_MAX == 288000000
LON_MIN == 770000000
LON_MAX == 774000000
\* EMISSION_FACTORS in 0.1 g/km
EMISSION_FACTORS == [CO |-> 60, NOx |-> 80, PM25 |-> 5, CO2 |-> 11000]
Pollutants == {"CO", "NOx", "PM25", "CO2"}

\* datetime.fromtimestamp: largest epoch value (1e10 s) inside year 9999,
\* and largest one that still fits the platform time_t (2^63 - 1 s)
TS_MAX_DATETIME == 25
TS_MAX_TIME_T == 922337203

(***************************************************************************)
(* Generic helpers                                                         *)
(***************************************************************************)
Last(s) == s[Len(s)]
Prefix(s, k) == SubSeq(s, 1, k)
Count(s, x) == Cardinality({i \in 1..Len(s) : s[i] = x})
Has(s, x) == \E i \in 1..Len(s) : s[i] = x

RECURSIVE SeqsUpTo(_, _)
SeqsUpTo(S, n) ==
    IF n = 0 THEN {<<>>}
    ELSE LET shorter == SeqsUpTo(S, n - 1)
         IN  shorter \cup {Append(s, x) : s \in {t \in shorter : Len(t) = n - 1}, x \in S}

\* floor division that is also right for negative numerators (d > 0)
FloorDiv(n, d) == IF n >= 0 THEN n \div d ELSE -((-n + d - 1) \div d)

\* Python round(x, ndigits): round half to even onto the grid of step `unit`
Round(x, unit) ==
    LET q == FloorDiv(x, unit)
        r == x - q * unit
    IN  IF 2 * r < unit THEN q * unit
        ELSE IF 2 * r > unit THEN (q + 1) * unit
        ELSE IF q % 2 = 0 THEN q * unit ELSE (q + 1) * unit

(***************************************************************************)
(* Feed entities.  A FeedEntity carries entity.id and, when it declares    *)
(* vehicle telemetry, a VehiclePosition v with optional position and       *)
(* timestamp and a VehicleDescriptor id (v.vehicle.id, "" when unset).     *)
(* Absent scalar fields read as their protobuf defaults.                   *)
(***************************************************************************)
Entity(id, descId, lat, lon, speed, ts) ==
    [id |-> id, hasVehicle |-> TRUE, hasPosition |-> TRUE, hasTimestamp |-> TRUE,
     vehicle_desc_id |-> descId,
     latitude |-> lat, longitude |-> lon, speed |-> speed, timestamp |-> ts]

NoPosition(e) == [e EXCEPT !.hasPosition = FALSE, !.latitude = 0, !.longitude = 0, !.speed = 0]
NoTimestamp(e) == [e EXCEPT !.hasTimestamp = FALSE, !.timestamp = 0]
NoVehicle(e) == [NoTimestamp(NoPosition(e)) EXCEPT !.hasVehicle = FALSE, !.vehicle_desc_id = ""]

\* a bus at (28.65, 77.3) moving at 10 m/s
BaseEntity == Entity("V1", "", 286500000, 773000000, 10000, 1)

\* entities the runs of main() are fed with
RunEntities ==
    { BaseEntity,
      [BaseEntity EXCEPT !.id = "V2", !.speed = 29995],
      NoTimestamp(BaseEntity),
      [BaseEntity EXCEPT !.id = "V2", !.timestamp = TS_MAX_TIME_T + 1],
      NoVehicle(BaseEntity) }

Feeds == SeqsUpTo(RunEntities, MaxEntities)

\* entities process_vehicles is exercised with: the base entity with one field
\* moved at a time onto, next to and far from each threshold of the validation
ValidateEntities ==
    {[BaseEntity EXCEPT !.latitude = x] :
        x \in {284999999, 285000000, 285000004, 287999995, 288000000, 288000001, 400000000}}
    \cup {[BaseEntity EXCEPT !.longitude = x] :
        x \in {769999999, 770000000, 773999996, 774000000, 774000001}}
    \cup {[BaseEntity EXCEPT !.speed = x] :
        x \in {-10000, -5, -1, 0, 4, 20000, 29995, 30000, 30001, 30004}}
    \cup {[BaseEntity EXCEPT !.timestamp = x] :
        x \in {0, 2, TS_MAX_DATETIME, TS_MAX_DATETIME + 1, TS_MAX_TIME_T,
                TS_MAX_TIME_T + 1, 1844674407}}
    \cup {NoPosition(BaseEntity), NoTimestamp(BaseEntity), NoTimestamp(NoPosition(BaseEntity))}
    \cup {[BaseEntity EXCEPT !.id = "V2"], [BaseEntity EXCEPT !.id = ""],
          [BaseEntity EXCEPT !.vehicle_desc_id = "BUS7"],
          [BaseEntity EXCEPT !.id = "", !.vehicle_desc_id = "BUS7"]}

\* entities the emission estimate is exercised with: one without timestamp,
\* one at latitude 40.0, and valid ones at speeds on and off the 0.01 m/s grid
EstimateEntities ==
    {NoTimestamp(BaseEntity), [BaseEntity EXCEPT !.latitude = 400000000]}
    \cup {[BaseEntity EXCEPT !.speed = x] : x \in {0, 4, 125, 10000, 29995, 30000}}

EstimateInputs == SeqsUpTo(EstimateEntities, MaxScenario) \ {<<>>}

\* entities the aggregates are exercised with: one vehicle seen at two
\* instants, a second report of it for the first instant, a second vehicle,
\* and an entity without timestamp
SummaryEntities ==
    { BaseEntity,
      [BaseEntity EXCEPT !.speed = 4],
      [BaseEntity EXCEPT !.timestamp = 2, !.speed = 20000],
      [BaseEntity EXCEPT !.id = "V2", !.speed = 29995],
      NoTimestamp(BaseEntity) }

SummaryInputs == SeqsUpTo(SummaryEntities, MaxScenario) \ {<<>>}

ValidateInputs == SeqsUpTo(ValidateEntities, MaxEntities) \ {<<>>}

(***************************************************************************)
(* Validation                                                              *)
(***************************************************************************)
validate_location(lat, lon) ==
    LAT_MIN <= lat /\ lat <= LAT_MAX /\ LON_MIN <= lon /\ lon <= LON_MAX

\* mutant: the lower bound of the speed check is forgotten
validate_speed_no_lower(speed) == speed <= SPEED_MAX_M_S

validate_speed(speed) == 0 <= speed /\ speed <= SPEED_MAX_M_S

\* datetime.fromtimestamp(t, timezone.utc): "ok" or the exception it raises.
\* Past year 9999 it is ValueError (or OSError once gmtime gives up, which the
\* same except clause catches); past the platform time_t it is OverflowError.
fromtimestamp(t) ==
    IF t <= TS_MAX_DATETIME THEN "ok"
    ELSE IF t <= TS_MAX_TIME_T THEN "ValueError"
    ELSE "OverflowError"

\* except (ValueError, OSError)
CaughtTimestampErrors == {"ValueError", "OSError"}

\* ts.astimezone().isoformat(): one text per instant
isoformat(t) == <<"iso8601", t>>

\* getattr(v, "id", None) or entity.id or "unknown": a VehiclePosition has no
\* attribute "id", so the getattr yields None
resolve_vehicle_id(e) == IF e.id # "" THEN e.id ELSE "unknown"

\* mutant: the estimate is taken from the speed already rounded to 2 decimals
emission_from_rounded_speed(p, speed) ==
    Round(6 * EMISSION_FACTORS[p] * Round(speed, 10), 10000) \div 10000

\* round(f * (speed * 3.6) / 60.0, 2), in 1e-2 g
emission(p, speed) == Round(6 * EMISSION_FACTORS[p] * speed, 10000) \div 10000

build_row(e) ==
    [vehicle_id |-> resolve_vehicle_id(e),
     timestamp  |-> isoformat(e.timestamp),
     latitude   |-> Round(e.latitude, 10),
     longitude  |-> Round(e.longitude, 10),
     speed_m_s  |-> Round(e.speed, 10),
     CO   |-> emission("CO", e.speed),
     NOx  |-> emission("NOx", e.speed),
     PM25 |-> emission("PM25", e.speed),
     CO2  |-> emission("CO2", e.speed)]

\* one iteration of the loop body: "skip", "raise" or "row"
classify(e) ==
    IF ~e.hasPosition \/ ~e.hasTimestamp THEN "skip"
    ELSE IF ~validate_location(e.latitude, e.longitude) THEN "skip"
    ELSE IF ~validate_speed(e.speed) THEN "skip"
    ELSE IF fromtimestamp(e.timestamp) = "ok" THEN "row"
    ELSE IF fromtimestamp(e.timestamp) \in CaughtTimestampErrors THEN "skip"
    ELSE "raise"

\* the for loop of process_vehicles from entity i on; an uncaught exception
\* leaves the loop with the rows and the counter as they were
RECURSIVE process_loop(_, _, _, _)
process_loop(es, i, rs, sk) ==
    IF i > Len(es) THEN [rows |-> rs, skipped |-> sk, raised |-> FALSE]
    ELSE LET c == classify(es[i])
         IN  IF c = "raise" THEN [rows |-> rs, skipped |-> sk, raised |-> TRUE]
             ELSE IF c = "skip" THEN process_loop(es, i + 1, rs, sk + 1)
             ELSE process_loop(es, i + 1, Append(rs, build_row(es[i])), sk)

\* mutant: keep="last"
RECURSIVE drop_duplicates_keep_last(_)
drop_duplicates_keep_last(rs) ==
    IF rs = <<>> THEN <<>>
    ELSE LET rest == drop_duplicates_keep_last(Tail(rs))
             r == Head(rs)
         IN  IF \E j \in 2..Len(rs) :
                    /\ rs[j].vehicle_id = r.vehicle_id
                    /\ rs[j].timestamp = r.timestamp
             THEN rest
             ELSE <<r>> \o rest

\* mutant: the kept records are collected by prepending
RECURSIVE drop_duplicates_prepend(_)
drop_duplicates_prepend(rs) ==
    IF rs = <<>> THEN <<>>
    ELSE LET init == drop_duplicates_prepend(Prefix(rs, Len(rs) - 1))
             r == Last(rs)
         IN  IF \E j \in 1..(Len(rs) - 1) :
                    /\ rs[j].vehicle_id = r.vehicle_id
                    /\ rs[j].timestamp = r.timestamp
             THEN init
             ELSE <<r>> \o init

\* df.drop_duplicates(subset=["vehicle_id", "timestamp"], keep="first");
\* an empty frame is returned as it is
RECURSIVE drop_duplicates(_)
drop_duplicates(rs) ==
    IF rs = <<>> THEN <<>>
    ELSE LET init == drop_duplicates(Prefix(rs, Len(rs) - 1))
             r == Last(rs)
         IN  IF \E j \in 1..(Len(rs) - 1) :
                    /\ rs[j].vehicle_id = r.vehicle_id
                    /\ rs[j].timestamp = r.timestamp
             THEN init
             ELSE Append(init, r)

process_vehicles(es) ==
    LET loop == process_loop(es, 1, <<>>, 0)
    IN  [rows |-> loop.rows, skipped |-> loop.skipped, raised |-> loop.raised,
         df |-> IF loop.raised THEN <<>> ELSE drop_duplicates(loop.rows)]

\* mutant: main() does not notice an empty frame
df_empty_never(d) == FALSE

\* df.empty
df_empty(d) == d = <<>>

\* mutant: the records are counted, not the distinct identities
nunique_counts_records(d) == Len(d)

\* df["vehicle_id"].nunique()
nunique(d) == Cardinality({d[i].vehicle_id : i \in 1..Len(d)})

RECURSIVE column_sum(_, _)
column_sum(d, p) == IF d = <<>> THEN 0 ELSE d[1][p] + column_sum(Tail(d), p)

(***************************************************************************)
(* Files.  A file is absent or holds a sequence of lines; a line is the    *)
(* header or one data row.                                                 *)
(***************************************************************************)
NoFile == [exists |-> FALSE, lines |-> <<>>]
File(ls) == [exists |-> TRUE, lines |-> ls]
Header(name) == [kind |-> "header", cols |-> name]
Row(data) == [kind |-> "row", data |-> data]

RowsOf(d) == [i \in 1..Len(d) |-> Row(d[i])]

\* mutant: the file is never truncated, every write appends
file_after_never_truncates(file, mode, content, outcome, k) ==
    IF outcome = "open_failed" THEN file
    ELSE IF outcome = "ok" THEN File(file.lines \o content)
    ELSE File(file.lines \o Prefix(content, k))

\* What a write leaves behind.  mode "w" truncates on open, mode "a" keeps the
\* old lines.  "ok": all of `content` is written.  "open_failed": the open
\* raised, the file is untouched.  "write_failed": the open succeeded (the file
\* now exists, truncated under "w") and only the first k lines of `content`
\* reached the file before the write raised.
file_after(file, mode, content, outcome, k) ==
    LET base == IF mode = "w" THEN <<>> ELSE file.lines
    IN  IF outcome = "open_failed" THEN file
        ELSE IF outcome = "ok" THEN File(base \o content)
        ELSE File(base \o Prefix(content, k))

WriteOutcomes == {"ok", "open_failed", "write_failed"}

\* the k a write outcome can come with: a failed write stops short of the end
Written(content, outcome) ==
    IF outcome = "write_failed" THEN 0..(Len(content) - 1) ELSE {Len(content)}

\* df.to_csv(OUT_RAW, index=False)
raw_content(d) == <<Header("raw")>> \o RowsOf(d)

\* open(OUT_VEHICLE_COUNT, "a"): header if the file did not exist, then the row
count_content(file, now, d) ==
    (IF file.exists THEN <<>> ELSE <<Header("count")>>)
        \o <<Row([timestamp |-> now, vehicle_count |-> nunique(d)])>>

\* the summary dict, with round(total, 2) on totals that are sums of 1e-2 g
summary_row(now, d) ==
    [timestamp |-> now,
     vehicle_count |-> nunique(d),
     CO_total_g   |-> Round(column_sum(d, "CO"), 1),
     NOx_total_g  |-> Round(column_sum(d, "NOx"), 1),
     PM25_total_g |-> Round(column_sum(d, "PM25"), 1),
     CO2_total_g  |-> Round(column_sum(d, "CO2"), 1)]

\* to_csv(OUT_POLLUTION_SUMMARY, mode=mode, header=write_header)
summary_mode(file) == IF file.exists THEN "a" ELSE "w"
summary_content(file, now, d) ==
    (IF file.exists THEN <<>> ELSE <<Header("summary")>>) \o <<Row(summary_row(now, d))>>

(***************************************************************************)
(* Control flow of one run                                                 *)
(***************************************************************************)
\* mutant: the retry budget is one short
on_timeout_one_short(a) == IF a = max_retries - 2 THEN "exit" ELSE "retry"

\* except requests.Timeout, on 0-based attempt number a
on_timeout(a) == IF a = max_retries - 1 THEN "exit" ELSE "retry"

\* mutant: the break is missing, the loop goes on to its next pass
on_success_no_break == "continue"

\* after a successful request: break
on_success == "break"

\* mutant: every request failure is retried like a timeout
on_request_exception_retry == "retry"

\* except requests.RequestException
on_request_exception == "exit"

\* mutant: a failed append ends the run like a failed raw write
on_append_failed_exit == "exit"

\* log_vehicle_count / save_pollution_summary after a failed append: the
\* except clause logs and returns
on_append_failed == "continue"

\* mutant: a failed raw write is only logged
on_raw_failed_continue == "continue"

\* save_raw_data after a failed write: sys.exit(1)
on_raw_failed == "exit"

Init ==
    /\ pc = "idle"
    /\ runs = 0
    /\ attempts = <<>>
    /\ log = <<>>
    /\ entities = <<>>
    /\ rows = <<>>
    /\ skipped = 0
    /\ df = <<>>
    /\ exitCode = 0
    /\ rawStore = NoFile
    /\ countStore = NoFile
    /\ summaryStore = NoFile
    /\ before = <<NoFile, NoFile, NoFile>>

\* the process is started: `python fetch_traffic_data.py`
StartRun ==
    /\ pc \in {"idle", "exited"}
    /\ runs < MaxRuns
    /\ runs' = runs + 1
    /\ pc' = "fetch"
    /\ attempts' = <<>>
    /\ log' = <<>>
    /\ entities' = <<>>
    /\ rows' = <<>>
    /\ skipped' = 0
    /\ df' = <<>>
    /\ exitCode' = 0
    /\ before' = stores
    /\ UNCHANGED stores

\* sys.exit(1) after logging msgs
Exit1(msgs) ==
    /\ log' = log \o msgs
    /\ exitCode' = 1
    /\ pc' = "exited"

\* one pass of the retry loop: requests.get + raise_for_status
fetch_attempt(outcome) ==
    /\ pc = "fetch"
    /\ Len(attempts) < max_retries
    /\ attempts' = Append(attempts, outcome)
    /\ UNCHANGED <<runs, entities, rows, skipped, df, stores, before>>
    /\ IF outcome = "ok"
       THEN /\ log' = Append(log, "api_ok")
            /\ pc' = IF on_success = "break" \/ Len(attempts') = max_retries
                     THEN "decode" ELSE "fetch"
            /\ UNCHANGED exitCode
       ELSE IF outcome = "timeout"
       THEN IF on_timeout(Len(attempts)) = "exit"
            THEN Exit1(<<"timeout", "max_retries">>)
            ELSE /\ log' = Append(log, "timeout")
                 /\ UNCHANGED <<pc, exitCode>>
       ELSE IF on_request_exception = "exit"
            THEN Exit1(<<"request_failed">>)
            ELSE /\ log' = Append(log, "request_failed")
                 /\ UNCHANGED <<pc, exitCode>>

\* ParseFromString fails on a malformed payload
decode_failed ==
    /\ pc = "decode"
    /\ Exit1(<<"parse_failed">>)
    /\ UNCHANGED <<runs, attempts, entities, rows, skipped, df, stores, before>>

\* ParseFromString succeeds with `feed`; keep the entities with a vehicle
decode(feed) ==
    /\ pc = "decode"
    /\ LET es == SelectSeq(feed, LAMBDA e : e.hasVehicle)
       IN  IF es = <<>>
           THEN /\ Exit1(<<"no_vehicles">>)
                /\ UNCHANGED entities
           ELSE /\ entities' = es
                /\ log' = Append(log, "fetched")
                /\ pc' = "process"
                /\ UNCHANGED exitCode
    /\ UNCHANGED <<runs, attempts, rows, skipped, df, stores, before>>

\* df = process_vehicles(entities); if df.empty: sys.exit(1); an exception
\* out of process_vehicles lands in main's `except Exception`
main_process_vehicles ==
    /\ pc = "process"
    /\ LET r == process_vehicles(entities)
           skipMsg == IF r.skipped > 0 THEN <<"skipped">> ELSE <<>>
       IN  /\ rows' = r.rows
           /\ skipped' = r.skipped
           /\ df' = r.df
           /\ IF r.raised
              THEN Exit1(<<"unexpected">>)
              ELSE IF df_empty(r.df)
              THEN Exit1(skipMsg \o <<"complete", "no_valid">>)
              ELSE /\ log' = log \o skipMsg \o <<"complete">>
                   /\ pc' = "save_raw"
                   /\ UNCHANGED exitCode
    /\ UNCHANGED <<runs, attempts, entities, stores, before>>

save_raw_data(outcome, k) ==
    /\ pc = "save_raw"
    /\ rawStore' = file_after(rawStore, "w", raw_content(df), outcome, k)
    /\ IF outcome = "ok"
       THEN /\ log' = Append(log, "saved_raw")
            /\ pc' = "log_count"
            /\ UNCHANGED exitCode
       ELSE IF on_raw_failed = "exit"
       THEN Exit1(<<"raw_failed">>)
       ELSE /\ log' = Append(log, "raw_failed")
            /\ pc' = "log_count"
            /\ UNCHANGED exitCode
    /\ UNCHANGED <<runs, attempts, entities, rows, skipped, df, countStore, summaryStore, before>>

log_vehicle_count(outcome, k) ==
    /\ pc = "log_count"
    /\ countStore' = file_after(countStore, "a", count_content(countStore, runs, df), outcome, k)
    /\ IF outcome = "ok"
       THEN /\ log' = Append(log, "logged_count")
            /\ pc' = "save_summary"
            /\ UNCHANGED exitCode
       ELSE IF on_append_failed = "continue"
       THEN /\ log' = Append(log, "count_failed")
            /\ pc' = "save_summary"
            /\ UNCHANGED exitCode
       ELSE Exit1(<<"count_failed">>)
    /\ UNCHANGED <<runs, attempts, entities, rows, skipped, df, rawStore, summaryStore, before>>

\* the last call of main(): falling off the end is exit status 0
save_pollution_summary(outcome, k) ==
    /\ pc = "save_summary"
    /\ summaryStore' = file_after(summaryStore, summary_mode(summaryStore),
                                  summary_content(summaryStore, runs, df), outcome, k)
    /\ IF outcome = "ok"
       THEN /\ log' = log \o <<"saved_summary", "all_done">>
            /\ pc' = "exited"
            /\ UNCHANGED exitCode
       ELSE IF on_append_failed = "continue"
       THEN /\ log' = log \o <<"summary_failed", "all_done">>
            /\ pc' = "exited"
            /\ UNCHANGED exitCode
       ELSE Exit1(<<"summary_failed">>)
    /\ UNCHANGED <<runs, attempts, entities, rows, skipped, df, rawStore, countStore, before>>

Next ==
    \/ StartRun
    \/ \E outcome \in {"ok", "timeout", "error"} : fetch_attempt(outcome)
    \/ decode_failed
    \/ \E feed \in Feeds : decode(feed)
    \/ main_process_vehicles
    \/ \E o \in WriteOutcomes : \E k \in Written(raw_content(df), o) : save_raw_data(o, k)
    \/ \E o \in WriteOutcomes :
          \E k \in Written(count_content(countStore, runs, df), o) : log_vehicle_count(o, k)
    \/ \E o \in WriteOutcomes :
          \E k \in Written(summary_content(summaryStore, runs, df), o) : save_pollution_summary(o, k)

Spec == Init /\ [][Next]_vars

(***************************************************************************)
(* process_vehicles on its own: the first run has fetched and decoded a    *)
(* feed and stands before process_vehicles; the entities range over the    *)
(* thresholds of the validation.  The raw write follows.                   *)
(***************************************************************************)
InitValidate ==
    /\ pc = "process"
    /\ runs = 1
    /\ attempts = <<"ok">>
    /\ log = <<"api_ok", "fetched">>
    /\ entities \in ValidateInputs
    /\ rows = <<>>
    /\ skipped = 0
    /\ df = <<>>
    /\ exitCode = 0
    /\ rawStore = NoFile
    /\ countStore = NoFile
    /\ summaryStore = NoFile
    /\ before = <<NoFile, NoFile, NoFile>>

NextValidate ==
    \/ main_process_vehicles
    \/ \E o \in WriteOutcomes : \E k \in Written(raw_content(df), o) : save_raw_data(o, k)

SpecValidate == InitValidate /\ [][NextValidate]_vars

\* the same stage of the run, on the feeds of the emission estimate
InitEstimate ==
    /\ pc = "process"
    /\ runs = 1
    /\ attempts = <<"ok">>
    /\ log = <<"api_ok", "fetched">>
    /\ entities \in EstimateInputs
    /\ rows = <<>>
    /\ skipped = 0
    /\ df = <<>>
    /\ exitCode = 0
    /\ rawStore = NoFile
    /\ countStore = NoFile
    /\ summaryStore = NoFile
    /\ before = <<NoFile, NoFile, NoFile>>

SpecEstimate == InitEstimate /\ [][NextValidate]_vars

\* the first run from process_vehicles to its end, on the feeds of the aggregates
InitSummary ==
    /\ pc = "process"
    /\ runs = 1
    /\ attempts = <<"ok">>
    /\ log = <<"api_ok", "fetched">>
    /\ entities \in SummaryInputs
    /\ rows = <<>>
    /\ skipped = 0
    /\ df = <<>>
    /\ exitCode = 0
    /\ rawStore = NoFile
    /\ countStore = NoFile
    /\ summaryStore = NoFile
    /\ before = <<NoFile, NoFile, NoFile>>

NextSummary ==
    \/ main_process_vehicles
    \/ \E o \in WriteOutcomes : \E k \in Written(raw_content(df), o) : save_raw_data(o, k)
    \/ \E o \in WriteOutcomes :
          \E k \in Written(count_content(countStore, runs, df), o) : log_vehicle_count(o, k)
    \/ \E o \in WriteOutcomes :
          \E k \in Written(summary_content(summaryStore, runs, df), o) : save_pollution_summary(o, k)

SpecSummary == InitSummary /\ [][NextSummary]_vars

(***************************************************************************)
(* What happened in the run, read off the requests' outcomes, the data and *)
(* the log.                                                                *)
(***************************************************************************)
Exited == pc = "exited"
TimedOut == attempts # <<>> /\ Last(attempts) = "timeout"
FetchFailed == attempts # <<>> /\ Last(attempts) # "ok"
DecodeFailed == Has(log, "parse_failed")
NoVehicles == Has(log, "api_ok") /\ ~DecodeFailed /\ Exited /\ entities = <<>>
ProcessDone == Has(log, "fetched") /\ pc # "process"
ZeroValid == ProcessDone /\ rows = <<>>
ReachedPersistence == ProcessDone /\ df # <<>>
RawAttempted == Has(log, "saved_raw") \/ Has(log, "raw_failed")
CountAttempted == Has(log, "logged_count") \/ Has(log, "count_failed")
SummaryAttempted == Has(log, "saved_summary") \/ Has(log, "summary_failed")
EarlyFailure == FetchFailed \/ DecodeFailed \/ NoVehicles \/ ZeroValid

\* an entity that meets every requirement of the Record Validator
MeetsChecks(e) ==
    /\ e.hasPosition /\ e.hasTimestamp
    /\ 285000000 <= e.latitude /\ e.latitude <= 288000000
    /\ 770000000 <= e.longitude /\ e.longitude <= 774000000
    /\ 0 <= e.speed /\ e.speed <= 30000
IsValidEntity(e) == MeetsChecks(e) /\ e.timestamp <= 25
HasBadTimestamp(e) == MeetsChecks(e) /\ e.timestamp > 25

RowInBounds(r) ==
    /\ 285000000 <= r.latitude /\ r.latitude <= 288000000
    /\ 770000000 <= r.longitude /\ r.longitude <= 774000000
    /\ 0 <= r.speed_m_s /\ r.speed_m_s <= 30000

(***************************************************************************)
(* C1: a timed-out attempt is followed by another request while fewer than *)
(* 3 attempts were made; the run stops on timeouts (exit 1) only after the *)
(* 3rd attempt timed out, and then it does stop; every timed-out attempt   *)
(* is logged; no run issues more than 3 requests.                          *)
(***************************************************************************)
C1_RetryBudget ==
    /\ [](/\ Len(attempts) <= 3
          /\ Count(log, "timeout") = Count(attempts, "timeout")
          /\ (TimedOut /\ Len(attempts) < 3 => pc = "fetch" /\ exitCode = 0)
          /\ (TimedOut /\ Exited => attempts = <<"timeout", "timeout", "timeout">>)
          /\ (attempts = <<"timeout", "timeout", "timeout">>
                => Exited /\ exitCode = 1 /\ Has(log, "max_retries")))
    /\ [][TimedOut /\ Len(attempts) < 3 => Len(attempts') = Len(attempts) + 1]_vars

C1_Witness ==
    /\ attempts = <<"timeout", "timeout", "timeout">>
    /\ Exited /\ exitCode = 1
    /\ Count(log, "timeout") = 3

(***************************************************************************)
(* C2: a non-timeout request failure on any attempt, also after earlier    *)
(* timeouts, ends the run at once with exit 1; no request follows it.      *)
(***************************************************************************)
C2_RequestFailureFatal ==
    \A i \in 1..Len(attempts) :
        attempts[i] = "error" =>
            /\ i = Len(attempts)
            /\ Exited /\ exitCode = 1
            /\ Has(log, "request_failed")

C2_Witness ==
    /\ attempts = <<"timeout", "timeout", "error">>
    /\ Exited /\ exitCode = 1

(***************************************************************************)
(* C3: the exit code of a run is 1 exactly when the fetch failed, the      *)
(* payload could not be decoded, the feed held no vehicle entity, zero     *)
(* records survived validation or the raw write failed; otherwise it is 0. *)
(***************************************************************************)
C3_ExitCodes ==
    Exited => (exitCode = 1 <=> (EarlyFailure \/ Has(log, "raw_failed")))

(***************************************************************************)
(* C4: a run that ends with a fetch failure, a decode failure, an empty    *)
(* vehicle set or zero valid records leaves the three files as they were;  *)
(* no file is touched before the persistence stage.                        *)
(***************************************************************************)
C4_EarlyFailureWritesNothing ==
    /\ (Exited /\ EarlyFailure => stores = before)
    /\ (pc \in {"fetch", "decode", "process"} => stores = before)

C4_Witness ==
    /\ Exited /\ exitCode = 1
    /\ ZeroValid /\ entities # <<>> /\ Has(log, "no_valid")
    /\ rawStore.exists /\ countStore.exists /\ summaryStore.exists
    /\ stores = before

(***************************************************************************)
(* C5 as stated: in every run that reaches the persistence stage all three *)
(* writes are attempted, whichever of them failed.                         *)
(***************************************************************************)
C5_AllThreeAttempted ==
    Exited /\ ReachedPersistence =>
        RawAttempted /\ CountAttempted /\ SummaryAttempted

(***************************************************************************)
(* C5 amended: in every run that reaches the persistence stage the raw     *)
(* write is attempted; when it succeeds both appends are attempted,        *)
(* whether or not the count append failed; when it fails the run stops     *)
(* and neither append is attempted.                                        *)
(***************************************************************************)
C5_AttemptsAfterRawWrite ==
    Exited /\ ReachedPersistence =>
        /\ RawAttempted
        /\ (Has(log, "saved_raw") => CountAttempted /\ SummaryAttempted)
        /\ (Has(log, "raw_failed") => ~CountAttempted /\ ~SummaryAttempted /\ exitCode = 1)

C5_Witness ==
    /\ Exited /\ ReachedPersistence
    /\ Has(log, "raw_failed")
    /\ ~CountAttempted /\ ~SummaryAttempted

(***************************************************************************)
(* C6: with the raw write done and the count append failed, the summary    *)
(* append is still attempted, can succeed or fail whatever the count       *)
(* append did, and the run exits 0; a failed summary append also leaves    *)
(* the exit code 0.                                                        *)
(***************************************************************************)
C6_AppendFailureRecovered ==
    /\ (Exited /\ Has(log, "saved_raw") /\ Has(log, "count_failed")
            => SummaryAttempted /\ exitCode = 0)
    /\ (Exited /\ Has(log, "summary_failed") => exitCode = 0)
    /\ (CountAttempted /\ ~SummaryAttempted =>
            /\ pc = "save_summary"
            /\ \A o \in WriteOutcomes :
                  ENABLED (\E k \in Written(summary_content(summaryStore, runs, df), o) :
                              save_pollution_summary(o, k)))

C6_Witness ==
    /\ Exited /\ exitCode = 0
    /\ Has(log, "saved_raw") /\ Has(log, "count_failed") /\ Has(log, "saved_summary")
    /\ countStore = before[2]
    /\ summaryStore # before[3]

(***************************************************************************)
(* C7: when the raw write fails the run exits 1 and commits nothing: the   *)
(* two series get no row and the raw file is not left partial or           *)
(* truncated, it is what it was before the run.                            *)
(***************************************************************************)
C7_RawFailureCommitsNothing ==
    Exited /\ Has(log, "raw_failed") =>
        /\ exitCode = 1
        /\ countStore = before[2]
        /\ summaryStore = before[3]
        /\ rawStore = before[1]

(***************************************************************************)
(* C8: every record process_vehicles returns, and every record the raw     *)
(* file holds, has 28.5 <= latitude <= 28.8, 77.0 <= longitude <= 77.4     *)
(* and 0 <= speed <= 30.0 after rounding.                                  *)
(***************************************************************************)
C8_RecordsInBounds ==
    /\ \A i \in 1..Len(rows) : RowInBounds(rows[i])
    /\ \A i \in 1..Len(df) : RowInBounds(df[i])
    /\ \A i \in 1..Len(rawStore.lines) :
          rawStore.lines[i].kind = "row" => RowInBounds(rawStore.lines[i].data)

C8_Witness ==
    /\ \E i \in 1..Len(entities) : entities[i].latitude = 287999995
    /\ \E i \in 1..Len(entities) : entities[i].speed = 29995
    /\ \E i \in 1..Len(rawStore.lines) :
          rawStore.lines[i].kind = "row" /\ rawStore.lines[i].data.latitude = 288000000
    /\ \E i \in 1..Len(rows) : rows[i].speed_m_s = 30000

(***************************************************************************)
(* C9: once process_vehicles is over every input entity is a row or is     *)
(* counted in skipped, exactly one of the two: rows built plus skipped is  *)
(* the number of entities, and every entity without position or timestamp  *)
(* is among the skipped.                                                   *)
(***************************************************************************)
C9_RowsPlusSkipped ==
    ProcessDone =>
        /\ Len(rows) + skipped = Len(entities)
        /\ skipped >= Cardinality({i \in 1..Len(entities) :
                          ~entities[i].hasPosition \/ ~entities[i].hasTimestamp})

(***************************************************************************)
(* C10: an entity whose timestamp does not convert to an instant is        *)
(* counted as skipped and never aborts the run; when another entity of     *)
(* the feed is valid the run goes on to the persistence stage.             *)
(***************************************************************************)
C10_BadTimestampSkipped ==
    ProcessDone /\ (\E i \in 1..Len(entities) : HasBadTimestamp(entities[i])) =>
        /\ ~Has(log, "unexpected")
        /\ skipped >= Cardinality({i \in 1..Len(entities) : HasBadTimestamp(entities[i])})
        /\ ((\E i \in 1..Len(entities) : IsValidEntity(entities[i]))
               => ReachedPersistence /\ (Exited => RawAttempted))

(***************************************************************************)
(* C11: the deduplication returns a subsequence of the rows, in the same   *)
(* order, with no key (vehicle_id, timestamp) twice; every key of the rows *)
(* is kept, and the record kept for a key is the first one with that key.  *)
(***************************************************************************)
ProcessReturned == ProcessDone /\ ~Has(log, "unexpected")
Key(r) == <<r.vehicle_id, r.timestamp>>

C11_KeepFirstSubsequence ==
    ProcessReturned =>
        /\ \A i, j \in 1..Len(df) : i < j => Key(df[i]) # Key(df[j])
        /\ \A i \in 1..Len(rows) : \E k \in 1..Len(df) : Key(df[k]) = Key(rows[i])
        /\ \E f \in [1..Len(df) -> 1..Len(rows)] :
              /\ \A a, b \in 1..Len(df) : a < b => f[a] < f[b]
              /\ \A a \in 1..Len(df) :
                    /\ df[a] = rows[f[a]]
                    /\ \A j \in 1..(f[a] - 1) : Key(rows[j]) # Key(rows[f[a]])

C11_Witness ==
    /\ ProcessReturned
    /\ Len(rows) = 2
    /\ Key(rows[1]) = Key(rows[2])
    /\ rows[1].speed_m_s # rows[2].speed_m_s
    /\ rows[1].CO # rows[2].CO
    /\ df = <<rows[1]>>

(***************************************************************************)
(* C12: deduplication is idempotent: deduplicating the deduplicated        *)
(* records again returns them unchanged, same records in the same order.   *)
(***************************************************************************)
C12_DedupIdempotent ==
    ProcessReturned => drop_duplicates(df) = df

C12_Witness ==
    /\ ProcessReturned
    /\ Len(df) = 2
    /\ drop_duplicates(df) = df
    /\ drop_duplicates(rows \o rows) = df

(***************************************************************************)
(* C13: after any sequence of runs each of the two series, once it holds   *)
(* anything, is one header row followed only by data rows; a run keeps     *)
(* every row written before it and appends at most one data row to each    *)
(* series, exactly one when its append succeeds.                           *)
(***************************************************************************)
SeriesWellFormed(f) ==
    f.lines # <<>> =>
        /\ f.lines[1].kind = "header"
        /\ \A i \in 2..Len(f.lines) : f.lines[i].kind = "row"
DataRows(f) == Cardinality({i \in 1..Len(f.lines) : f.lines[i].kind = "row"})
KeepsRowsOf(old, new) ==
    /\ Len(old.lines) <= Len(new.lines)
    /\ Prefix(new.lines, Len(old.lines)) = old.lines

C13_AppendOnlySeries ==
    /\ SeriesWellFormed(countStore)
    /\ SeriesWellFormed(summaryStore)
    /\ KeepsRowsOf(before[2], countStore)
    /\ KeepsRowsOf(before[3], summaryStore)
    /\ DataRows(countStore) <= DataRows(before[2]) + 1
    /\ DataRows(summaryStore) <= DataRows(before[3]) + 1
    /\ (Has(log, "logged_count") => DataRows(countStore) = DataRows(before[2]) + 1)
    /\ (Has(log, "saved_summary") => DataRows(summaryStore) = DataRows(before[3]) + 1)

(***************************************************************************)
(* C14: after a run whose raw write succeeded the raw file holds exactly   *)
(* the deduplicated records of that run, in order, and nothing else: no    *)
(* record of an earlier run remains.                                       *)
(***************************************************************************)
RowData(f) ==
    LET idx == {i \in 1..Len(f.lines) : f.lines[i].kind = "row"}
    IN  [n \in 1..Cardinality(idx) |->
            f.lines[CHOOSE i \in idx : Cardinality({j \in idx : j <= i}) = n].data]

C14_RawHoldsThisRunOnly ==
    Has(log, "saved_raw") =>
        /\ rawStore.exists
        /\ RowData(rawStore) = df
        /\ DataRows(rawStore) = Len(rawStore.lines) - 1
        /\ rawStore.lines[1].kind = "header"

C14_Witness ==
    /\ Exited /\ Has(log, "saved_raw")
    /\ DataRows(before[1]) = 2
    /\ Len(df) = 1
    /\ \E i \in 1..2 : RowData(before[1])[i] # df[1]
    /\ RowData(rawStore) = df

(***************************************************************************)
(* C15: for every validated record, built from an entity reporting speed   *)
(* s in [0, 30] m/s, each of the four estimates is factor x (s x 3.6 / 60) *)
(* rounded to 2 decimals, with factors CO 6.0, NOx 8.0, PM2.5 0.5 and CO2  *)
(* 1100.0, and is not negative; the feed (no timestamp; latitude 40.0;     *)
(* valid at 28.65, 77.3, 10 m/s) yields exactly 1 record with CO = 3.60.   *)
(***************************************************************************)
FactorTenths(p) ==
    CASE p = "CO" -> 60 [] p = "NOx" -> 80 [] p = "PM25" -> 5 [] p = "CO2" -> 11000

\* factor x s x 0.06 g on the 0.01 g grid, ties to even
ExpectedEstimate(p, s) ==
    LET n == 6 * FactorTenths(p) * s
        q == n \div 10000
        r == n % 10000
    IN  IF 2 * r > 10000 \/ (2 * r = 10000 /\ q % 2 = 1) THEN q + 1 ELSE q

ScenarioFeed ==
    <<NoTimestamp(BaseEntity), [BaseEntity EXCEPT !.latitude = 400000000], BaseEntity>>

C15_EmissionEstimates ==
    ProcessReturned =>
        LET valid == SelectSeq(entities, IsValidEntity)
        IN  /\ Len(rows) = Len(valid)
            /\ \A i \in 1..Len(rows) : \A p \in {"CO", "NOx", "PM25", "CO2"} :
                  /\ rows[i][p] = ExpectedEstimate(p, valid[i].speed)
                  /\ rows[i][p] >= 0
            /\ (entities = ScenarioFeed => Len(rows) = 1 /\ Len(df) = 1 /\ df[1].CO = 360)

C15_Witness ==
    /\ entities = ScenarioFeed
    /\ ProcessReturned
    /\ skipped = 2
    /\ Len(df) = 1
    /\ df[1].CO = 360 /\ df[1].NOx = 480 /\ df[1].PM25 = 30 /\ df[1].CO2 = 66000

(***************************************************************************)
(* C16: the identity of a validated record is the vehicle-level identifier *)
(* when the entity carries one, otherwise the entity-level identifier when *)
(* that is not empty, otherwise "unknown"; it is never empty.              *)
(***************************************************************************)
ExpectedIdentity(e) ==
    IF e.vehicle_desc_id # "" THEN e.vehicle_desc_id
    ELSE IF e.id # "" THEN e.id
    ELSE "unknown"

C16_IdentityResolution ==
    ProcessReturned =>
        LET valid == SelectSeq(entities, IsValidEntity)
        IN  /\ Len(rows) = Len(valid)
            /\ \A i \in 1..Len(rows) :
                  /\ rows[i].vehicle_id = ExpectedIdentity(valid[i])
                  /\ rows[i].vehicle_id # ""

(***************************************************************************)
(* C17: a run that exits 1 has, as its last message, the error of the      *)
(* stage that failed (fetch, decode, no vehicles in the feed, no valid     *)
(* records, raw write), never an unattributed error; a run whose entities  *)
(* are all rejected by the validation reports that no valid record is      *)
(* left.                                                                   *)
(***************************************************************************)
StageErrors ==
    {"max_retries", "request_failed", "parse_failed", "no_vehicles", "no_valid", "raw_failed"}

C17_FatalNamesStage ==
    /\ (Exited /\ exitCode = 1 =>
            /\ log # <<>>
            /\ Last(log) \in StageErrors
            /\ ~Has(log, "unexpected"))
    /\ (Exited /\ entities # <<>> /\ (\A i \in 1..Len(entities) : ~IsValidEntity(entities[i]))
            => Last(log) = "no_valid")

(***************************************************************************)
(* C18: once an attempt has succeeded the run issues no further request: a *)
(* successful attempt is the last one of its run, a first-attempt success  *)
(* makes exactly one request, and a decode failure or an empty vehicle set *)
(* after it ends the run with exit 1 and no new fetch.                     *)
(***************************************************************************)
C18_NoRequestAfterSuccess ==
    /\ [](/\ \A i \in 1..Len(attempts) : attempts[i] = "ok" => i = Len(attempts)
          /\ (pc \in {"decode", "process", "save_raw", "log_count", "save_summary"}
                => Count(attempts, "ok") = 1)
          /\ (DecodeFailed \/ NoVehicles =>
                Exited /\ exitCode = 1 /\ Count(attempts, "ok") = 1))
    /\ [][Has(attempts, "ok") => attempts' = attempts \/ (pc = "exited" /\ attempts' = <<>>)]_vars

C18_Witness ==
    /\ attempts = <<"ok">>
    /\ NoVehicles
    /\ Exited /\ exitCode = 1

(***************************************************************************)
(* C19: within a run the stages come in the order fetch, decode,           *)
(* validate + estimate + dedup, raw write, count append, summary append,   *)
(* each at most once (fetch attempts aside); no file is touched before the *)
(* deduplication has produced a record, the count append comes only after  *)
(* a successful raw write and the summary append only after the count      *)
(* append was attempted.                                                   *)
(***************************************************************************)
StageOf(m) ==
    CASE m \in {"api_ok"} -> 1
      [] m \in {"fetched"} -> 2
      [] m \in {"complete"} -> 3
      [] m \in {"saved_raw", "raw_failed"} -> 4
      [] m \in {"logged_count", "count_failed"} -> 5
      [] m \in {"saved_summary", "summary_failed"} -> 6
      [] OTHER -> 0

\* the stages the log records, in the order they were logged
StagesLogged == SelectSeq([i \in 1..Len(log) |-> StageOf(log[i])], LAMBDA n : n > 0)

C19_StagesInOrder ==
    /\ \A i \in 1..Len(StagesLogged) : StagesLogged[i] = i
    /\ (stores # before => Has(log, "complete") /\ df # <<>> /\ RawAttempted)
    /\ (CountAttempted \/ countStore # before[2] => Has(log, "saved_raw"))
    /\ (SummaryAttempted \/ summaryStore # before[3] => CountAttempted)

C19_Witness ==
    /\ Exited /\ exitCode = 0
    /\ StagesLogged = <<1, 2, 3, 4, 5, 6>>
    /\ Count(attempts, "timeout") = 2
    /\ rawStore # before[1] /\ countStore # before[2] /\ summaryStore # before[3]

(***************************************************************************)
(* C20: in a run where both appends succeed the vehicle_count of the count *)
(* row equals the vehicle_count of the summary row, both are the number of *)
(* distinct vehicle identities among the records written to the raw file   *)
(* (the deduplicated records of the run), and each total of the summary is *)
(* the sum of that pollutant over exactly those records.                   *)
(***************************************************************************)
RECURSIVE Total(_, _)
Total(recs, p) == IF recs = <<>> THEN 0 ELSE Head(recs)[p] + Total(Tail(recs), p)

C20_CountsAndTotals ==
    Exited /\ Has(log, "logged_count") /\ Has(log, "saved_summary") =>
        LET written == RowData(rawStore)
            c == Last(countStore.lines).data
            t == Last(summaryStore.lines).data
            ids == {written[i].vehicle_id : i \in 1..Len(written)}
        IN  /\ written = df
            /\ c.vehicle_count = Cardinality(ids)
            /\ t.vehicle_count = c.vehicle_count
            /\ t.CO_total_g = Total(written, "CO")
            /\ t.NOx_total_g = Total(written, "NOx")
            /\ t.PM25_total_g = Total(written, "PM25")
            /\ t.CO2_total_g = Total(written, "CO2")

\* one vehicle at two instants plus a second report for the first instant:
\* two records, one identity, and the dropped report adds nothing
C20_Witness ==
    /\ Exited /\ Has(log, "logged_count") /\ Has(log, "saved_summary")
    /\ Len(rows) = 3 /\ Len(df) = 2
    /\ Last(countStore.lines).data.vehicle_count = 1
    /\ Last(summaryStore.lines).data.vehicle_count = 1
    /\ Last(summaryStore.lines).data.CO2_total_g = df[1].CO2 + df[2].CO2
    /\ Last(summaryStore.lines).data.CO2_total_g # Total(rows, "CO2")

=============================================================================
